---- MODULE Spec2Model ----
(***************************************************************************)
(* milk/supervised/multi.py: the three decompositions of a multi-class or  *)
(* multi-label problem into binary problems (one_against_rest,             *)
(* one_against_one, one_against_rest_multi), their learners and models.    *)
(*                                                                         *)
(* The base classifier is a collaborator: base.train returns a sub-model,  *)
(* recorded here as the arguments and the option state it was trained      *)
(* with; what a sub-model answers on an input is any boolean.  Features    *)
(* are represented by the instance indices 1..n they belong to.            *)
(*                                                                         *)
(* train is followed one loop iteration per step; apply changes nothing    *)
(* but its return value, so one apply per trained model reaches every      *)
(* pair of sub-model answers and result.  normaliselabels is imported      *)
(* from milk/supervised/classifier.py and returns dense 0-based labels.    *)
(***************************************************************************)
EXTENDS Integers, Sequences, FiniteSets, TLC

\* ------------------------------------------------------------- bounds
MaxLen == 3
NumLabels == 3
MaxMultiLen == 2
NumMultiLabels == 2
MaxSets == 2

\* Raw (caller-side) label values; none of them is a normalised index.
RawLabel(c) == 2 * c + 5
RawLabels == {RawLabel(c) : c \in 0..(NumLabels - 1)}
MultiLabels == {RawLabel(c) : c \in 0..(NumMultiLabels - 1)}

\* Option names and values a caller passes to set_option; DefaultValue is
\* what the base classifier holds for an option nobody set.
OptKeys == {"C", "kernel"}
OptValues == {"v1", "v2"}
DefaultValue == "v0"

None == [tag |-> "None"]

VARIABLES
    kind,          \* which learner was constructed: "oar", "oao", "multi"
    labels,        \* train's labels argument (single-label learners)
    labelsets,     \* train's labels argument (one_against_rest_multi)
    hasSetOption,  \* hasattr(base, 'set_option')
    options,       \* self.options of one_against_rest / one_against_one
    baseOpts,      \* the option state of self.base
    baseSetCalls,  \* number of base.set_option calls made so far
    nSets,         \* number of set_option calls the caller made
    pc,            \* "idle", "training", "done", "applied", "failed"
    err,           \* the exception train raised, "" if none
    norm,          \* train's local: the normalised labels
    names,         \* train's local: the name table
    nclasses,      \* train's local
    i, j,          \* train's loop counters
    all_labels,    \* one_against_rest_multi.train's local
    models,        \* train's local: list / table / dict of sub-models
    calls,         \* the base.train calls of the single-label learners, in order
    model,         \* the model object train returned, None before
    fired,         \* apply: the sub-models that answered true
    result         \* apply's return value

vars == <<kind, labels, labelsets, hasSetOption, options, baseOpts,
          baseSetCalls, nSets, pc, err, norm, names, nclasses, i, j,
          all_labels, models, calls, model, fired, result>>

\* ------------------------------------------------------------ helpers
\* Range and SeqsUpTo are plain set constructions.
Range(s) == {s[n] : n \in DOMAIN s}

SeqsUpTo(S, n) == UNION {[1..m -> S] : m \in 0..n}

\* sorted(set(labels)) as a 0-based table
SortedNames(S) ==
    [c \in 0..(Cardinality(S) - 1) |->
        CHOOSE x \in S : Cardinality({y \in S : y < x}) = c]

\* normaliselabels(labels): dense 0-based integers and the name table with
\* names[c] the original value mapped to c.
normaliselabels(lbls) ==
    [normalised |-> [n \in 1..Len(lbls) |->
                        Cardinality({y \in Range(lbls) : y < lbls[n]})],
     names |-> SortedNames(Range(lbls))]

\* labels.max() + 1
NClassesOffByOne(lbls) == CHOOSE m \in Range(lbls) : \A x \in Range(lbls) : x <= m

NClasses(lbls) == (CHOOSE m \in Range(lbls) : \A x \in Range(lbls) : x <= m) + 1

\* for k,v in self.options.iteritems(): self.base.set_option(k, v)
PropagateNothing(opts, base) == base

Propagate(opts, base) ==
    [k \in OptKeys |-> IF k \in DOMAIN opts THEN opts[k] ELSE base[k]]

\* self.options[k] = v
DictSet(d, k, v) == [x \in (DOMAIN d) \cup {k} |-> IF x = k THEN v ELSE d[x]]

\* base.train(features, binary_labels, normalisedlabels=...): the sub-model,
\* recorded as what it was trained on and under which options.
BaseTrain(feats, ind, nl, opts) ==
    [tag |-> "model", feats |-> feats, ind |-> ind, nl |-> nl, opts |-> opts]

\* ------------------------------------------------------------ Init
Init ==
    /\ kind \in {"oar", "oao", "multi"}
    /\ IF kind = "multi"
          THEN /\ labels = << >>
               /\ labelsets \in SeqsUpTo(SUBSET MultiLabels, MaxMultiLen)
               /\ hasSetOption \in BOOLEAN
          ELSE /\ labels \in SeqsUpTo(RawLabels, MaxLen)
               /\ labelsets = << >>
               /\ hasSetOption = TRUE
    /\ options = << >>
    /\ baseOpts = [k \in OptKeys |-> DefaultValue]
    /\ baseSetCalls = 0
    /\ nSets = 0
    /\ pc = "idle"
    /\ err = ""
    /\ norm = << >>
    /\ names = << >>
    /\ nclasses = 0
    /\ i = 0
    /\ j = 0
    /\ all_labels = {}
    /\ models = << >>
    /\ calls = << >>
    /\ model = None
    /\ fired = {}
    /\ result = None

\* ------------------------------------------------- one_against_rest
\* one_against_rest.set_option
OarSetOption ==
    /\ kind = "oar" /\ pc \in {"idle", "done"} /\ nSets < MaxSets
    /\ \E k \in OptKeys, v \in OptValues : options' = DictSet(options, k, v)
    /\ nSets' = nSets + 1
    /\ UNCHANGED <<kind, labels, labelsets, hasSetOption, baseOpts,
                   baseSetCalls, pc, err, norm, names, nclasses, i, j,
                   all_labels, models, calls, model, fired, result>>

\* one_against_rest.train, lines 56-58; an empty label collection is
\* rejected (labels.max() of an empty array raises).
OarTrainBegin ==
    /\ kind = "oar" /\ pc = "idle"
    /\ IF labels = << >>
          THEN /\ pc' = "failed" /\ err' = "ValueError"
               /\ UNCHANGED <<norm, names, nclasses>>
          ELSE /\ norm' = normaliselabels(labels).normalised
               /\ names' = normaliselabels(labels).names
               /\ nclasses' = NClasses(norm')
               /\ pc' = "training" /\ err' = ""
    /\ i' = 0
    /\ models' = << >>
    /\ UNCHANGED <<kind, labels, labelsets, hasSetOption, options, baseOpts,
                   baseSetCalls, nSets, j, all_labels, calls, model, fired,
                   result>>

\* one iteration of the loop of lines 59-63
OarTrainIter ==
    /\ kind = "oar" /\ pc = "training" /\ i < nclasses
    /\ baseOpts' = Propagate(options, baseOpts)
    /\ baseSetCalls' = baseSetCalls + Cardinality(DOMAIN options)
    /\ LET m == BaseTrain([n \in 1..Len(norm) |-> n],
                          [n \in 1..Len(norm) |-> IF norm[n] = i THEN 1 ELSE 0],
                          "True", baseOpts')
       IN /\ models' = Append(models, m)
          /\ calls' = Append(calls, [cls |-> <<i>>, model |-> m])
    /\ i' = i + 1
    /\ UNCHANGED <<kind, labels, labelsets, hasSetOption, options, nSets, pc,
                   err, norm, names, nclasses, j, all_labels, model, fired,
                   result>>

\* line 64 and one_against_rest_model.__init__
OarTrainReturn ==
    /\ kind = "oar" /\ pc = "training" /\ i >= nclasses
    /\ model' = [tag |-> "one_against_rest_model", models |-> models,
                 nclasses |-> Len(models), names |-> names]
    /\ pc' = "done"
    /\ UNCHANGED <<kind, labels, labelsets, hasSetOption, options, baseOpts,
                   baseSetCalls, nSets, err, norm, names, nclasses, i, j,
                   all_labels, models, calls, fired, result>>

\* one_against_rest_model.apply, lines 74-80, for vals true exactly on F:
\* idxs is F in ascending order.
OarLabelLast(F) ==
    IF Cardinality(F) = 1 THEN CHOOSE x \in F : TRUE
    ELSE IF Cardinality(F) = 0 THEN 0
    ELSE CHOOSE x \in F : \A y \in F : y <= x

OarLabelZeroLast(F) ==
    IF Cardinality(F) = 1 THEN CHOOSE x \in F : TRUE
    ELSE IF Cardinality(F) = 0 THEN model.nclasses - 1
    ELSE CHOOSE x \in F : \A y \in F : x <= y

OarLabel(F) ==
    IF Cardinality(F) = 1 THEN CHOOSE x \in F : TRUE
    ELSE IF Cardinality(F) = 0 THEN 0
    ELSE CHOOSE x \in F : \A y \in F : x <= y

OarApply ==
    /\ kind = "oar" /\ pc = "done"
    /\ \E F \in SUBSET (0..(model.nclasses - 1)) :
          /\ fired' = F
          /\ result' = model.names[OarLabel(F)]
    /\ pc' = "applied"
    /\ UNCHANGED <<kind, labels, labelsets, hasSetOption, options, baseOpts,
                   baseSetCalls, nSets, err, norm, names, nclasses, i, j,
                   all_labels, models, calls, model>>

\* -------------------------------------------------- one_against_one
\* one_against_one.set_option
OaoSetOption ==
    /\ kind = "oao" /\ pc \in {"idle", "done"} /\ nSets < MaxSets
    /\ \E k \in OptKeys, v \in OptValues : options' = DictSet(options, k, v)
    /\ nSets' = nSets + 1
    /\ UNCHANGED <<kind, labels, labelsets, hasSetOption, baseOpts,
                   baseSetCalls, pc, err, norm, names, nclasses, i, j,
                   all_labels, models, calls, model, fired, result>>

\* The nested loops of lines 126-127 (and 152-153) as the pair they stand
\* at: the first pair, and the pair after (a, b); <<nc, nc>> once exhausted.
FirstPair(nc) == IF nc >= 2 THEN <<0, 1>> ELSE <<nc, nc>>

NextPair(a, b, nc) ==
    IF b + 1 < nc THEN <<a, b + 1>>
    ELSE IF a + 2 < nc THEN <<a + 1, a + 2>>
    ELSE <<nc, nc>>

\* [ [None for i in xrange(nclasses)] for j in xrange(nclasses)]
EmptyTable(nc) == [r \in 0..(nc - 1) |-> [c \in 0..(nc - 1) |-> None]]

\* idxs = (labels == i) | (labels == j), as the instances selected
PairIdxsAnd(lbls, a, b) == {n \in 1..Len(lbls) : lbls[n] = a /\ lbls[n] = b}

PairIdxs(lbls, a, b) == {n \in 1..Len(lbls) : lbls[n] = a \/ lbls[n] = b}

\* the condition of the assert of line 131: idxs.sum() > 0
PairHasDataAlways(lbls, a, b) == TRUE

PairHasData(lbls, a, b) == Cardinality(PairIdxs(lbls, a, b)) > 0

\* features[idxs]: the selected instances, in their order
PairFeatures(lbls, a, b) ==
    SelectSeq([n \in 1..Len(lbls) |-> n], LAMBDA n : n \in PairIdxs(lbls, a, b))

\* (labels[idxs] == i).astype(int)
PairIndicatorOfJ(lbls, a, b) ==
    LET sel == PairFeatures(lbls, a, b)
    IN [m \in 1..Len(sel) |-> IF lbls[sel[m]] = b THEN 1 ELSE 0]

PairIndicator(lbls, a, b) ==
    LET sel == PairFeatures(lbls, a, b)
    IN [m \in 1..Len(sel) |-> IF lbls[sel[m]] = a THEN 1 ELSE 0]

\* models[i][j] = model
TableSet(t, a, b, m) == [t EXCEPT ![a][b] = m]

\* one_against_one.train, lines 122-125
OaoTrainBegin ==
    /\ kind = "oao" /\ pc = "idle"
    /\ IF labels = << >>
          THEN /\ pc' = "failed" /\ err' = "ValueError"
               /\ UNCHANGED <<norm, names, nclasses, i, j, models>>
          ELSE /\ norm' = normaliselabels(labels).normalised
               /\ names' = normaliselabels(labels).names
               /\ nclasses' = NClasses(norm')
               /\ models' = EmptyTable(nclasses')
               /\ i' = FirstPair(nclasses')[1]
               /\ j' = FirstPair(nclasses')[2]
               /\ pc' = "training" /\ err' = ""
    /\ UNCHANGED <<kind, labels, labelsets, hasSetOption, options, baseOpts,
                   baseSetCalls, nSets, all_labels, calls, model, fired,
                   result>>

\* one iteration of the inner loop, lines 128-134
OaoTrainIter ==
    /\ kind = "oao" /\ pc = "training" /\ i < nclasses
    /\ baseOpts' = Propagate(options, baseOpts)
    /\ baseSetCalls' = baseSetCalls + Cardinality(DOMAIN options)
    /\ IF ~PairHasData(norm, i, j)
          THEN /\ pc' = "failed" /\ err' = "AssertionError"
               /\ UNCHANGED <<models, calls, i, j>>
          ELSE LET m == BaseTrain(PairFeatures(norm, i, j),
                                  PairIndicator(norm, i, j), "True", baseOpts')
               IN /\ models' = TableSet(models, i, j, m)
                  /\ calls' = Append(calls, [cls |-> <<i, j>>, model |-> m])
                  /\ i' = NextPair(i, j, nclasses)[1]
                  /\ j' = NextPair(i, j, nclasses)[2]
                  /\ UNCHANGED <<pc, err>>
    /\ UNCHANGED <<kind, labels, labelsets, hasSetOption, options, nSets,
                   norm, names, nclasses, all_labels, model, fired, result>>

\* line 135 and one_against_one_model.__init__
OaoTrainReturn ==
    /\ kind = "oao" /\ pc = "training" /\ i >= nclasses
    /\ model' = [tag |-> "one_against_one_model", models |-> models,
                 nclasses |-> nclasses, names |-> names]
    /\ pc' = "done"
    /\ UNCHANGED <<kind, labels, labelsets, hasSetOption, options, baseOpts,
                   baseSetCalls, nSets, err, norm, names, nclasses, i, j,
                   all_labels, models, calls, fired, result>>

\* The voting loop of lines 151-158, for the sub-models of the pairs in F
\* answering true, from pair (a, b) on.
RECURSIVE VoteLoop(_, _, _, _, _)
VoteLoop(nc, F, a, b, votes) ==
    IF a >= nc THEN votes
    ELSE VoteLoop(nc, F, NextPair(a, b, nc)[1], NextPair(a, b, nc)[2],
                  IF <<a, b>> \in F THEN [votes EXCEPT ![a] = @ + 1]
                                    ELSE [votes EXCEPT ![b] = @ + 1])

\* np.zeros(nc), then the loop
Votes(nc, F) ==
    VoteLoop(nc, F, FirstPair(nc)[1], FirstPair(nc)[2],
             [c \in 0..(nc - 1) |-> 0])

\* votes.argmax(0): a scan that keeps the first maximum
RECURSIVE ArgmaxScan(_, _, _, _)
ArgmaxScan(votes, nc, c, best) ==
    IF c >= nc THEN best
    ELSE ArgmaxScan(votes, nc, c + 1,
                    IF votes[c] > votes[best] THEN c ELSE best)

RECURSIVE ArgmaxScanLast(_, _, _, _)
ArgmaxScanLast(votes, nc, c, best) ==
    IF c >= nc THEN best
    ELSE ArgmaxScanLast(votes, nc, c + 1,
                        IF votes[c] >= votes[best] THEN c ELSE best)

ArgmaxLast(votes, nc) == ArgmaxScanLast(votes, nc, 1, 0)

Argmax(votes, nc) == ArgmaxScan(votes, nc, 1, 0)

AllPairs(nc) == {p \in (0..(nc - 1)) \X (0..(nc - 1)) : p[1] < p[2]}

\* one_against_one_model.apply
OaoApply ==
    /\ kind = "oao" /\ pc = "done"
    /\ \E F \in SUBSET AllPairs(model.nclasses) :
          /\ fired' = F
          /\ result' = model.names[Argmax(Votes(model.nclasses, F),
                                          model.nclasses)]
    /\ pc' = "applied"
    /\ UNCHANGED <<kind, labels, labelsets, hasSetOption, options, baseOpts,
                   baseSetCalls, nSets, err, norm, names, nclasses, i, j,
                   all_labels, models, calls, model>>

\* ------------------------------------------- one_against_rest_multi
\* one_against_rest_multi.__init__: self.set_option = base.set_option when
\* the base has one; the learner keeps no option dictionary of its own.
MultiSetOptionBuffered ==
    /\ kind = "multi" /\ hasSetOption
    /\ pc \in {"idle", "done"} /\ nSets < MaxSets
    /\ \E k \in OptKeys, v \in OptValues : options' = DictSet(options, k, v)
    /\ nSets' = nSets + 1
    /\ UNCHANGED <<kind, labels, labelsets, hasSetOption, baseOpts,
                   baseSetCalls, pc, err, norm, names, nclasses, i, j,
                   all_labels, models, calls, model, fired, result>>

MultiSetOption ==
    /\ kind = "multi" /\ hasSetOption
    /\ pc \in {"idle", "done"} /\ nSets < MaxSets
    /\ \E k \in OptKeys, v \in OptValues :
          baseOpts' = [baseOpts EXCEPT ![k] = v]
    /\ baseSetCalls' = baseSetCalls + 1
    /\ nSets' = nSets + 1
    /\ UNCHANGED <<kind, labels, labelsets, hasSetOption, options, pc, err,
                   norm, names, nclasses, i, j, all_labels, models, calls,
                   model, fired, result>>

\* all_labels = set(); for ls in labels: all_labels.update(ls)
AllLabelsOfFirst(ls) == IF ls = << >> THEN {} ELSE ls[1]

AllLabels(ls) == UNION Range(ls)

\* one_against_rest_multi.train, lines 187-190
MultiTrainBegin ==
    /\ kind = "multi" /\ pc = "idle"
    /\ all_labels' = AllLabels(labelsets)
    /\ models' = << >>
    /\ pc' = "training"
    /\ UNCHANGED <<kind, labels, labelsets, hasSetOption, options, baseOpts,
                   baseSetCalls, nSets, err, norm, names, nclasses, i, j,
                   calls, model, fired, result>>

\* one iteration of the loop of lines 191-192; a set is iterated in an
\* order the code does not fix.
MultiTrainIter ==
    /\ kind = "multi" /\ pc = "training"
    /\ \E label \in all_labels \ DOMAIN models :
          LET m == BaseTrain([n \in 1..Len(labelsets) |-> n],
                             [n \in 1..Len(labelsets) |-> label \in labelsets[n]],
                             "default", baseOpts)
          IN models' = DictSet(models, label, m)
    /\ UNCHANGED <<kind, labels, labelsets, hasSetOption, options, baseOpts,
                   baseSetCalls, nSets, pc, err, norm, names, nclasses, i, j,
                   all_labels, calls, model, fired, result>>

\* line 193 and one_against_rest_multi_model.__init__
MultiTrainReturn ==
    /\ kind = "multi" /\ pc = "training"
    /\ all_labels \subseteq DOMAIN models
    /\ model' = [tag |-> "one_against_rest_multi_model", models |-> models]
    /\ pc' = "done"
    /\ UNCHANGED <<kind, labels, labelsets, hasSetOption, options, baseOpts,
                   baseSetCalls, nSets, err, norm, names, nclasses, i, j,
                   all_labels, models, calls, fired, result>>

\* The orders self.models.iteritems() may visit the keys in.
IterOrders(S) ==
    {f \in [1..Cardinality(S) -> S] : \A a, b \in DOMAIN f : f[a] = f[b] => a = b}

\* [lab for lab,model in self.models.iteritems() if model.apply(feats)]
MultiCollect(ord, F) == SelectSeq(ord, LAMBDA lab : lab \in F)

\* one_against_rest_multi_model.apply
MultiApply ==
    /\ kind = "multi" /\ pc = "done"
    /\ \E F \in SUBSET (DOMAIN model.models) :
       \E ord \in IterOrders(DOMAIN model.models) :
          /\ fired' = F
          /\ result' = MultiCollect(ord, F)
    /\ pc' = "applied"
    /\ UNCHANGED <<kind, labels, labelsets, hasSetOption, options, baseOpts,
                   baseSetCalls, nSets, err, norm, names, nclasses, i, j,
                   all_labels, models, calls, model>>

\* ------------------------------------------------------ specifications
Next ==
    \/ OarSetOption
    \/ OarTrainBegin
    \/ OarTrainIter
    \/ OarTrainReturn
    \/ OarApply
    \/ OaoSetOption
    \/ OaoTrainBegin
    \/ OaoTrainIter
    \/ OaoTrainReturn
    \/ OaoApply
    \/ MultiSetOption
    \/ MultiTrainBegin
    \/ MultiTrainIter
    \/ MultiTrainReturn
    \/ MultiApply

Spec == Init /\ [][Next]_vars

\* The loop of one_against_one.train (lines 124-135) entered with any
\* non-negative label array, whatever normaliselabels returned: the state
\* after line 125, with names[c] the original value of class c.
InitLoop ==
    /\ kind = "oao"
    /\ norm \in SeqsUpTo(0..NumLabels, MaxLen) \ {<< >>}
    /\ labels = [n \in 1..Len(norm) |-> RawLabel(norm[n])]
    /\ labelsets = << >>
    /\ hasSetOption = TRUE
    /\ options \in UNION {[S -> OptValues] : S \in SUBSET OptKeys}
    /\ baseOpts = [k \in OptKeys |-> DefaultValue]
    /\ baseSetCalls = 0
    /\ nSets = Cardinality(DOMAIN options)
    /\ pc = "training"
    /\ err = ""
    /\ nclasses = NClasses(norm)
    /\ names = [c \in 0..(nclasses - 1) |-> RawLabel(c)]
    /\ i = FirstPair(nclasses)[1]
    /\ j = FirstPair(nclasses)[2]
    /\ all_labels = {}
    /\ models = EmptyTable(nclasses)
    /\ calls = << >>
    /\ model = None
    /\ fired = {}
    /\ result = None

NextLoop ==
    \/ OaoTrainIter
    \/ OaoTrainReturn

SpecLoop == InitLoop /\ [][NextLoop]_vars
\* ------------------------------------------------------------- claims
SubModels(t, nc) == {p \in (0..(nc - 1)) \X (0..(nc - 1)) : t[p[1]][p[2]] # None}

Trained == pc \in {"done", "applied"}

\* C1: for a label sequence with k >= 1 distinct values, one_against_rest.train
\* makes exactly k base train calls and returns a model of exactly k
\* sub-models; one_against_one.train makes exactly k*(k-1)/2 calls and returns
\* a model of exactly k*(k-1)/2 sub-models.  Neither fails.
C1_SubModelCounts ==
    LET k == Cardinality(Range(labels))
    IN (kind \in {"oar", "oao"} /\ k >= 1) =>
          /\ pc # "failed"
          /\ (Trained /\ kind = "oar") =>
                /\ Len(calls) = k
                /\ Len(model.models) = k
                /\ model.nclasses = k
          /\ (Trained /\ kind = "oao") =>
                /\ 2 * Len(calls) = k * (k - 1)
                /\ 2 * Cardinality(SubModels(model.models, model.nclasses)) = k * (k - 1)

C1_Witness ==
    /\ kind = "oao" /\ pc = "done"
    /\ Cardinality(Range(labels)) = 3
    /\ Len(calls) = 3
    /\ Cardinality(SubModels(model.models, model.nclasses)) = 3

\* The tally of one_against_one voting, stated per class: class c gets one
\* vote from every pair (c, d) that fired and one from every pair (d, c)
\* that did not.
Tally(nc, F) ==
    [c \in 0..(nc - 1) |->
        Cardinality({d \in (c + 1)..(nc - 1) : <<c, d>> \in F})
        + Cardinality({d \in 0..(c - 1) : <<d, c>> \notin F})]

\* C2: one_against_one_model.apply tallies exactly one vote per pair (i, j),
\* i < j (to i if the (i, j) sub-model fires, else to j), from an all-zero
\* tally, and returns names[m] for the lowest index m of maximum tally.
C2_VotingLowestMax ==
    (kind = "oao" /\ pc = "applied") =>
        LET nc == model.nclasses
            t == Tally(nc, fired)
            m == CHOOSE c \in 0..(nc - 1) :
                    /\ \A d \in 0..(nc - 1) : t[d] <= t[c]
                    /\ \A d \in 0..(c - 1) : t[d] < t[c]
        IN /\ Votes(nc, fired) = t
           /\ result = model.names[m]

C2_Witness ==
    /\ kind = "oao" /\ pc = "applied"
    /\ model.nclasses = 3
    /\ fired = {<<0, 1>>, <<1, 2>>}
    /\ result = model.names[0]

\* C3: when at least one sub-model fires, one_against_rest_model.apply returns
\* names[m] for the lowest firing index m, which is the original label value
\* of the instances normalised to m.
C3_LowestFiringName ==
    (kind = "oar" /\ pc = "applied" /\ fired # {}) =>
        LET m == CHOOSE c \in fired : \A d \in fired : c <= d
        IN /\ result = model.names[m]
           /\ \E n \in DOMAIN labels : norm[n] = m
           /\ \A n \in DOMAIN labels : norm[n] = m => labels[n] = result

C3_Witness ==
    /\ kind = "oar" /\ pc = "applied"
    /\ fired = {1, 2}
    /\ result = model.names[1]
    /\ result = RawLabel(1)

\* C4: when no sub-model fires, one_against_rest_model.apply returns names[0]
\* and no error is raised.
C4_ZeroFireFallback ==
    (kind = "oar" /\ pc = "applied" /\ fired = {}) =>
        /\ result = model.names[0]
        /\ err = ""

C4_Witness ==
    /\ kind = "oar" /\ pc = "applied"
    /\ fired = {}
    /\ model.nclasses = 3
    /\ result = model.names[0]

\* A training set over the three classes RawLabel(0..2) in which the third
\* class has no instance.
ThreeClassNoClass2 ==
    /\ kind = "oao"
    /\ labels # << >>
    /\ Range(labels) \subseteq {RawLabel(0), RawLabel(1)}

\* C5 as stated: on a 3-class training set whose class 2 has no instance,
\* one_against_one.train fails before producing a model.
C5_Original ==
    ThreeClassNoClass2 => (model = None /\ ~Trained)

\* C5 amended: on such a training set one_against_one.train does not fail; it
\* returns a model over the k <= 2 classes present, with k*(k-1)/2 sub-models.
C5_TrainsClassesPresent ==
    ThreeClassNoClass2 =>
        /\ pc # "failed"
        /\ Trained =>
              LET k == Cardinality(Range(labels))
              IN /\ model # None
                 /\ model.nclasses = k
                 /\ 2 * Cardinality(SubModels(model.models, k)) = k * (k - 1)

C5_Witness ==
    /\ ThreeClassNoClass2 /\ pc = "done"
    /\ Range(labels) = {RawLabel(0), RawLabel(1)}
    /\ model.nclasses = 2
    /\ model.models[0][1] # None

\* No training instance has normalised label a or b.
PairEmpty(a, b) == \A n \in DOMAIN norm : norm[n] # a /\ norm[n] # b

\* One step of the program, as the claim below constrains it.
EmptyPairStep ==
    kind = "oao" =>
        /\ pc # "failed"
        /\ (pc = "training" /\ i < nclasses /\ PairEmpty(i, j)) =>
              /\ pc' = "failed" /\ err' = "AssertionError"
              /\ calls' = calls
              /\ model' = None
        /\ (pc = "training" /\ i < nclasses /\ ~PairEmpty(i, j)) =>
              /\ pc' = "training" /\ err' = ""
              /\ calls' = Append(calls, [cls |-> <<i, j>>,
                                         model |-> models'[i][j]])
        /\ model' # None =>
              \A p \in AllPairs(nclasses) : ~PairEmpty(p[1], p[2])

\* C6: in one_against_one.train, a pair (i, j) with no instance labelled i or
\* j makes training fail at that pair: no base train call for it or for any
\* later pair, and no model is returned; a pair that has such an instance
\* is trained and raises nothing.
C6_EmptyPairFails == [][EmptyPairStep]_vars

C6_Witness ==
    /\ kind = "oao" /\ pc = "failed" /\ err = "AssertionError"
    /\ PairEmpty(1, 2) /\ <<i, j>> = <<1, 2>>
    /\ Len(calls) = 3
    /\ model = None

\* C7: the keys of the trained one_against_rest_multi model are the union of
\* the training label-sets, and apply returns exactly the keys whose
\* sub-model fires, each once; so every predicted label occurs in training.
C7_MultiLabelUniverse ==
    kind = "multi" =>
        /\ Trained =>
              DOMAIN model.models = UNION {labelsets[n] : n \in DOMAIN labelsets}
        /\ pc = "applied" =>
              /\ Range(result) = fired
              /\ Len(result) = Cardinality(fired)
              /\ \A x \in Range(result) : \E n \in DOMAIN labelsets : x \in labelsets[n]

C7_Witness ==
    /\ kind = "multi" /\ pc = "applied"
    /\ labelsets = <<{RawLabel(0)}, {RawLabel(1)}>>
    /\ fired = {RawLabel(1)}
    /\ result = <<RawLabel(1)>>

\* The number of pairs before p in ascending (i, j) order.
PairRank(p, nc) ==
    Cardinality({q \in AllPairs(nc) :
                    q[1] < p[1] \/ (q[1] = p[1] /\ q[2] < p[2])})

\* One step of the program, as the claim below constrains it.
OptionsStep ==
    kind \in {"oar", "oao"} =>
        /\ nSets' # nSets =>
              /\ baseOpts' = baseOpts
              /\ baseSetCalls' = baseSetCalls
              /\ \E k \in OptKeys, v \in OptValues :
                    options' = DictSet(options, k, v)
        /\ Len(calls') # Len(calls) =>
              LET c == calls'[Len(calls')]
              IN /\ Len(calls') = Len(calls) + 1
                 /\ \A k \in DOMAIN options : c.model.opts[k] = options[k]
                 /\ \A k \in DOMAIN options : baseOpts'[k] = options[k]
                 /\ baseSetCalls' = baseSetCalls + Cardinality(DOMAIN options)
                 /\ kind = "oar" => c.cls = <<Len(calls)>>
                 /\ kind = "oao" => PairRank(c.cls, nclasses) = Len(calls)
        /\ (pc = "training" \/ pc' = "training") => options' = options

\* C8: for one_against_rest and one_against_one, set_option only records the
\* option in the learner; each base train call (classes, respectively pairs,
\* taken in ascending order) is made with every entry of the learner's
\* options written to the base classifier, and train leaves the learner's
\* options as they were.
C8_OptionsPropagatedBeforeTrain == [][OptionsStep]_vars

C8_Witness ==
    /\ kind = "oar" /\ pc = "done"
    /\ DOMAIN options = OptKeys
    /\ Len(calls) = 2
    /\ \A n \in DOMAIN calls : \A k \in OptKeys : calls[n].model.opts[k] = options[k]
    /\ baseSetCalls = 4

\* One step of the program, as the claim below constrains it.
MultiOptionsStep ==
    (kind = "multi" /\ hasSetOption) =>
        /\ nSets' # nSets =>
              /\ \E k \in OptKeys, v \in OptValues :
                    baseOpts' = [baseOpts EXCEPT ![k] = v]
              /\ baseSetCalls' = baseSetCalls + 1
              /\ options' = options
              /\ models' = models /\ model' = model
        /\ (pc = "training" \/ pc' = "training") =>
              /\ baseOpts' = baseOpts
              /\ baseSetCalls' = baseSetCalls
              /\ \A l \in DOMAIN models' : models'[l].opts = baseOpts

\* C9: for one_against_rest_multi over a base with set_option, the learner's
\* set_option changes the base classifier's option at once and buffers
\* nothing; train calls no set_option, so every sub-model is trained under
\* the options in force when train was called, and an option set later
\* leaves the sub-models already trained as they are.
C9_MultiOptionsImmediate == [][MultiOptionsStep]_vars

C9_Witness ==
    /\ kind = "multi" /\ hasSetOption /\ pc = "done"
    /\ nSets = 2
    /\ \E l \in DOMAIN model.models : model.models[l].opts["C"] = "v1"
    /\ baseOpts["C"] = "v2"

\* C10: one_against_one.train trains the sub-model of each pair (i, j), i < j,
\* on exactly the instances labelled i or j, with indicator 1 exactly for
\* those labelled i, and stores it at (i, j); the returned table holds a
\* sub-model at (r, c) iff r < c.
C10_PairwiseTable ==
    (kind = "oao" /\ Trained) =>
        \A r, c \in 0..(model.nclasses - 1) :
            LET m == model.models[r][c]
                sel == {n \in DOMAIN norm : norm[n] = r \/ norm[n] = c}
            IN /\ m # None <=> r < c
               /\ r < c =>
                     /\ Range(m.feats) = sel
                     /\ Len(m.feats) = Cardinality(sel)
                     /\ DOMAIN m.ind = DOMAIN m.feats
                     /\ \A x \in DOMAIN m.feats :
                           m.ind[x] = IF norm[m.feats[x]] = r THEN 1 ELSE 0
                     /\ \E n \in DOMAIN calls :
                           calls[n] = [cls |-> <<r, c>>, model |-> m]

C10_Witness ==
    /\ kind = "oao" /\ pc = "done"
    /\ model.nclasses = 3
    /\ norm = <<0, 1, 2>>
    /\ model.models[0][2].feats = <<1, 3>>
    /\ model.models[0][2].ind = <<1, 0>>
    /\ model.models[2][0] = None
====
